---- MODULE Spec2Model ----
(***************************************************************************)
(* A model of src/interview_tool.rs: the instant registry                  *)
(* (create_instant / elapsed_since over an Arc<RwLock<HashMap>>), the      *)
(* duration formatter format_duration_mm_ss, and the file tools            *)
(* create_file / read_file.                                                *)
(*                                                                         *)
(* Texts are TLA+ strings (sequences of characters), built with \o the way *)
(* format! builds them.  A Duration / Instant is a number of milliseconds. *)
(***************************************************************************)
EXTENDS Integers, Sequences, FiniteSets, TLC

VARIABLES
    instant_map,   \* the HashMap<String, InstantInfo> inside the RwLock
    writers,       \* RwLock: the tasks holding a write guard
    readers,       \* RwLock: the tasks holding a read guard
    poisoned,      \* RwLock: poison flag (set by a panic under a write guard)
    now,           \* the monotonic clock read by Instant::now(), in ms
    generated,     \* the values Uuid::new_v4() has produced so far
    pc,            \* per task: where its handler stands
    req,           \* per task: the arguments of its current / last request
    uuid,          \* per task: the local `uuid` of create_instant
    resp,          \* per task: the Result its last request returned
    issued,        \* history: one record per create_instant that returned Ok
    n_issued,      \* history: how many create_instant calls have returned Ok
    n_called,      \* history: how many create_instant calls have started
    held,          \* history: per task, the lock mode held at its last map operation
    map_ops,       \* history: per task, map operations under its last lock acquisition
    started,       \* history: number of registry requests started so far
    fmt_in,        \* formatter harness: the Duration handed to format_duration_mm_ss
    fmt_out,       \* formatter harness: the String it returned
    disk,          \* file system: path -> bytes, or NoFile
    blocking,      \* tokio blocking pool: file writes handed over, not yet performed
    f_pc,          \* per file task: where its handler stands
    f_req,         \* per file task: the arguments of its current / last request
    f_resp,        \* per file task: the Result its last request returned
    committed,     \* history: path -> text of the last create_file that returned success
    f_started      \* history: number of file requests started so far

regVars == <<instant_map, writers, readers, poisoned, now, generated, pc, req,
             uuid, resp, issued, n_issued, n_called, held, map_ops,
             started>>
fmtVars == <<fmt_in, fmt_out>>
fileVars == <<disk, blocking, f_pc, f_req, f_resp, committed, f_started>>
vars == <<regVars, fmtVars, fileVars>>

----------------------------------------------------------------------------
(* Bounds of the model.                                                    *)

NumTasks == 2
MaxUuids == 2
MaxRequests == 3
MaxNow == 1000
MaxSecs == 6005
NumFileTasks == 2
MaxFileRequests == 3
MaxTextLen == 2

Tasks == 1..NumTasks

----------------------------------------------------------------------------
(* Text helpers.                                                           *)

Digit(k) == SubSeq("0123456789", k + 1, k + 1)

\* Display of an unsigned integer: decimal, no leading zeros.
RECURSIVE Dec(_)
Dec(n) == IF n < 10 THEN Digit(n) ELSE Dec(n \div 10) \o Digit(n % 10)

\* format!("{:02}", n): decimal, zero-padded on the left to width 2.
Pad2(n) == IF Len(Dec(n)) < 2 THEN "0" \o Dec(n) ELSE Dec(n)

Contains(s, x) ==
    \E i \in 1..(Len(s) - Len(x) + 1) : SubSeq(s, i, i + Len(x) - 1) = x

----------------------------------------------------------------------------
(* Results.                                                                *)

NoResp == [tag |-> "None"]
Ok(content) == [tag |-> "Ok", content |-> content]
Err(code, message) == [tag |-> "Err", code |-> code, message |-> message]

NoReq == [op |-> "none"]

----------------------------------------------------------------------------
(* The instant registry.                                                   *)

Labels == {"", "question-1"}

\* Uuid::new_v4().to_string(): the text of the n-th random value.
UuidText(n) == "uuid-" \o Dec(n)
Uuids == {UuidText(n) : n \in 1..MaxUuids}

\* Faulty variant: a generator that may repeat a value it has returned.
NewV4_Repeating == 1..MaxUuids

\* Uuid::new_v4(): a random 122-bit value; the values it may return next.  A
\* repeat has probability about 2^-122 per pair and is left out.
NewV4 == (1..MaxUuids) \ generated

\* Faulty variant: the label is not copied into the entry.
InstantInfo_new_NoLabel(t, label) == [start_instance |-> t, label |-> ""]

\* InstantInfo::new
InstantInfo_new(t, label) == [start_instance |-> t, label |-> label]

\* Faulty variant: the identifier is left out of the text.
CreateText_NoId(id) == "instance uuid is "

\* The text create_instant returns.
CreateText(id) == "instance uuid is " \o id

\* Faulty variant: the duration is rounded to the nearest second.
as_secs_Rounded(d) == (d + 500) \div 1000

\* Duration::as_secs: whole seconds, the sub-second part dropped.
as_secs(d) == d \div 1000

\* Faulty variant: the minutes wrap at the hour.
format_duration_mm_ss_Wrapping(d) ==
    LET total_secs == as_secs(d)
        mins == (total_secs \div 60) % 60
        secs == total_secs % 60
    IN  Pad2(mins) \o ":" \o Pad2(secs)

format_duration_mm_ss(d) ==
    LET total_secs == as_secs(d)
        mins == total_secs \div 60
        secs == total_secs % 60
    IN  Pad2(mins) \o ":" \o Pad2(secs)

\* Instant::elapsed: the clock now, minus the instant.
elapsed(start) == now - start

LabelText(label) == "instance label :" \o label
ElapsedText(start) == "time has elpased  " \o format_duration_mm_ss(elapsed(start))
NotFoundText(id) == "not found anything through and isntance id " \o id

\* What callers may pass as instance_id: identifiers (generated already or not),
\* and the whole text a create_instant returned.
InstanceIds == Uuids \cup {CreateText(UuidText(1))}

InitReg ==
    /\ instant_map = [k \in {} |-> NoReq]
    /\ writers = {}
    /\ readers = {}
    /\ poisoned = FALSE
    /\ now = 0
    /\ generated = {}
    /\ pc = [p \in Tasks |-> "idle"]
    /\ req = [p \in Tasks |-> NoReq]
    /\ uuid = [p \in Tasks |-> ""]
    /\ resp = [p \in Tasks |-> NoResp]
    /\ issued = {}
    /\ n_issued = 0
    /\ n_called = 0
    /\ held = [p \in Tasks |-> "none"]
    /\ map_ops = [p \in Tasks |-> 0]
    /\ started = 0

\* Faulty variant: the map is rebuilt with the new entry alone.
Insert_Alone(map, key, value) == [k \in {key} |-> value]

\* HashMap::insert: the value under the key, replacing any value already there.
Insert(map, key, value) ==
    [k \in DOMAIN map \cup {key} |-> IF k = key THEN value ELSE map[k]]

\* RwLock::write returns once no guard of either kind is out.
WriteAvailable == writers = {} /\ readers = {}

\* Faulty variant: a reader that does not wait for the writer.
ReadAvailable_NoWait == TRUE

\* RwLock::read returns once no write guard is out.
ReadAvailable == writers = {}

\* The lock mode task p holds.
Holding(p) ==
    IF p \in writers THEN "write" ELSE IF p \in readers THEN "read" ELSE "none"

\* Faulty variant: the write guard is leaked instead of dropped.
DropWriteGuard_Leak(p) == writers

\* Drop of the RwLockWriteGuard at the end of create_instant.
DropWriteGuard(p) == writers \ {p}

\* Drop of the RwLockReadGuard at the end of elapsed_since.
DropReadGuard(p) == readers \ {p}

\* create_instant, up to the lock: the request arrives and line 107 draws the uuid.
create_instant(p, label) ==
    /\ pc[p] = "idle"
    /\ started < MaxRequests
    /\ \E n \in NewV4 :
        /\ uuid' = [uuid EXCEPT ![p] = UuidText(n)]
        /\ generated' = generated \cup {n}
    /\ req' = [req EXCEPT ![p] = [op |-> "create_instant", label |-> label]]
    /\ resp' = [resp EXCEPT ![p] = NoResp]
    /\ held' = [held EXCEPT ![p] = "none"]
    /\ map_ops' = [map_ops EXCEPT ![p] = 0]
    /\ started' = started + 1
    /\ n_called' = n_called + 1
    /\ pc' = [pc EXCEPT ![p] = "c_lock"]
    /\ UNCHANGED <<instant_map, writers, readers, poisoned, now, issued, n_issued>>
    /\ UNCHANGED <<fmtVars, fileVars>>

\* instant_map.write().map_err(..)?
create_write_lock(p) ==
    /\ pc[p] = "c_lock"
    /\ WriteAvailable
    /\ IF poisoned
       THEN /\ resp' = [resp EXCEPT ![p] =
                          Err("INTERNAL_ERROR", "Failed to acquired write lock :poisoned")]
            /\ pc' = [pc EXCEPT ![p] = "idle"]
            /\ uuid' = [uuid EXCEPT ![p] = ""]
            /\ UNCHANGED writers
       ELSE /\ writers' = writers \cup {p}
            /\ pc' = [pc EXCEPT ![p] = "c_insert"]
            /\ UNCHANGED <<resp, uuid>>
    /\ UNCHANGED <<instant_map, readers, poisoned, now, generated, req, issued,
                   n_issued, n_called, held, map_ops, started>>
    /\ UNCHANGED <<fmtVars, fileVars>>

\* guard.insert(uuid.clone(), InstantInfo::new(Instant::now(), &args.label)), then
\* the Ok(..) is built, the guard is dropped and the handler returns.
create_insert(p) ==
    /\ pc[p] = "c_insert"
    /\ instant_map' = Insert(instant_map, uuid[p], InstantInfo_new(now, req[p].label))
    /\ held' = [held EXCEPT ![p] = Holding(p)]
    /\ map_ops' = [map_ops EXCEPT ![p] = @ + 1]
    /\ resp' = [resp EXCEPT ![p] = Ok(<<CreateText(uuid[p])>>)]
    /\ issued' = issued \cup {[id |-> uuid[p], label |-> req[p].label, at |-> now,
                                overlap |-> \E q \in Tasks \ {p} :
                                                pc[q] \in {"c_lock", "c_insert"}]}
    /\ n_issued' = n_issued + 1
    /\ writers' = DropWriteGuard(p)
    /\ uuid' = [uuid EXCEPT ![p] = ""]
    /\ pc' = [pc EXCEPT ![p] = "idle"]
    /\ UNCHANGED <<readers, poisoned, now, generated, req, n_called, started>>
    /\ UNCHANGED <<fmtVars, fileVars>>

\* elapsed_since, up to the lock: the request arrives.
elapsed_since(p, instance_id) ==
    /\ pc[p] = "idle"
    /\ started < MaxRequests
    /\ req' = [req EXCEPT ![p] = [op |-> "elapsed_since", instance_id |-> instance_id]]
    /\ resp' = [resp EXCEPT ![p] = NoResp]
    /\ held' = [held EXCEPT ![p] = "none"]
    /\ map_ops' = [map_ops EXCEPT ![p] = 0]
    /\ started' = started + 1
    /\ pc' = [pc EXCEPT ![p] = "e_lock"]
    /\ UNCHANGED <<instant_map, writers, readers, poisoned, now, generated, uuid,
                   issued, n_issued, n_called>>
    /\ UNCHANGED <<fmtVars, fileVars>>

\* instant_map.read().map_err(..)?
elapsed_read_lock(p) ==
    /\ pc[p] = "e_lock"
    /\ ReadAvailable
    /\ IF poisoned
       THEN /\ resp' = [resp EXCEPT ![p] =
                          Err("INTERNAL_ERROR",
                              "Failed to get write lock of uuid " \o req[p].instance_id
                                  \o ", error: poisoned")]
            /\ pc' = [pc EXCEPT ![p] = "idle"]
            /\ UNCHANGED readers
       ELSE /\ readers' = readers \cup {p}
            /\ pc' = [pc EXCEPT ![p] = "e_get"]
            /\ UNCHANGED resp
    /\ UNCHANGED <<instant_map, writers, poisoned, now, generated, req, uuid, issued,
                   n_issued, n_called, held, map_ops, started>>
    /\ UNCHANGED <<fmtVars, fileVars>>

\* guard.get(&args.instance_id).map(..).ok_or(..): the Result of the lookup.
GetResult(map, instance_id) ==
    IF instance_id \in DOMAIN map
    THEN Ok(<<LabelText(map[instance_id].label),
              ElapsedText(map[instance_id].start_instance)>>)
    ELSE Err("INVALID_PARAMS", NotFoundText(instance_id))

\* Faulty variant: the lookup takes the entry out of the map (remove in place of get).
MapAfterGet_Remove(map, instance_id) ==
    [k \in DOMAIN map \ {instance_id} |-> map[k]]

\* The map after guard.get(..): a lookup through a shared reference.
MapAfterGet(map, instance_id) == map

\* The lookup, then the guard is dropped and the handler returns.
elapsed_get(p) ==
    /\ pc[p] = "e_get"
    /\ resp' = [resp EXCEPT ![p] = GetResult(instant_map, req[p].instance_id)]
    /\ instant_map' = MapAfterGet(instant_map, req[p].instance_id)
    /\ held' = [held EXCEPT ![p] = Holding(p)]
    /\ map_ops' = [map_ops EXCEPT ![p] = @ + 1]
    /\ readers' = DropReadGuard(p)
    /\ pc' = [pc EXCEPT ![p] = "idle"]
    /\ UNCHANGED <<writers, poisoned, now, generated, req, uuid, issued, n_issued,
                   n_called, started>>
    /\ UNCHANGED <<fmtVars, fileVars>>

\* The monotonic clock advances, a second at a time.
TickSteps == {1000}

Tick(d) ==
    /\ now + d <= MaxNow
    /\ now' = now + d
    /\ UNCHANGED <<instant_map, writers, readers, poisoned, generated, pc, req, uuid,
                   resp, issued, n_issued, n_called, held, map_ops, started>>
    /\ UNCHANGED <<fmtVars, fileVars>>

----------------------------------------------------------------------------
(* The formatter on its own: a Duration comes in, the text goes out.       *)

SubSecs == {0, 999}
Durations == {secs * 1000 + ms : secs \in 0..MaxSecs, ms \in SubSecs}

InitFmt == fmt_in = 0 /\ fmt_out = ""

format_duration(d) ==
    /\ fmt_out = ""
    /\ fmt_in = d
    /\ fmt_out' = format_duration_mm_ss(d)
    /\ UNCHANGED <<fmt_in, regVars, fileVars>>

----------------------------------------------------------------------------
(* The file tools.  A text is a sequence of Unicode code points, a file a  *)
(* sequence of bytes; String::as_bytes and String::from_utf8 are UTF-8     *)
(* (code points below U+0800, one or two bytes each).                      *)

FileTasks == 1..NumFileTasks

\* Code points callers write: 'a' (one byte) and U+00E9 (two bytes).
Chars == {97, 233}

RECURSIVE TextsOfLen(_)
TextsOfLen(n) ==
    IF n = 0 THEN {<<>>}
    ELSE {Append(t, c) : t \in TextsOfLen(n - 1), c \in Chars}

Texts == UNION {TextsOfLen(n) : n \in 0..MaxTextLen}

\* The longest buffer a text takes: two bytes a code point.
MaxBytes == MaxTextLen * 2

\* "/tmp/a.txt" can be created; the directory of "/nodir/b.txt" does not exist.
Paths == {"/tmp/a.txt", "/nodir/b.txt"}
Creatable(path) == path = "/tmp/a.txt"

\* UTF-8 of one code point.
EncodeChar(c) ==
    IF c < 128 THEN <<c>> ELSE <<192 + (c \div 64), 128 + (c % 64)>>

\* String::as_bytes
RECURSIVE as_bytes(_)
as_bytes(text) ==
    IF text = <<>> THEN <<>> ELSE EncodeChar(Head(text)) \o as_bytes(Tail(text))

\* String::from_utf8: the text, or an error on bytes that are not UTF-8.
RECURSIVE from_utf8(_)
from_utf8(bytes) ==
    IF bytes = <<>> THEN [ok |-> TRUE, text |-> <<>>]
    ELSE IF bytes[1] < 128
    THEN LET rest == from_utf8(Tail(bytes))
         IN  [ok |-> rest.ok, text |-> <<bytes[1]>> \o rest.text]
    ELSE IF /\ bytes[1] \in 194..223
            /\ Len(bytes) >= 2
            /\ bytes[2] \in 128..191
    THEN LET rest == from_utf8(Tail(Tail(bytes)))
         IN  [ok |-> rest.ok,
              text |-> <<(bytes[1] - 192) * 64 + (bytes[2] - 128)>> \o rest.text]
    ELSE [ok |-> FALSE, text |-> <<>>]

NoFile == [exists |-> FALSE, bytes |-> <<>>]
File(bytes) == [exists |-> TRUE, bytes |-> bytes]
Unknown == [known |-> FALSE, text |-> <<>>]
Known(text) == [known |-> TRUE, text |-> text]

InitFile ==
    /\ disk = [path \in Paths |-> NoFile]
    /\ blocking = {}
    /\ f_pc = [p \in FileTasks |-> "idle"]
    /\ f_req = [p \in FileTasks |-> NoReq]
    /\ f_resp = [p \in FileTasks |-> NoResp]
    /\ committed = [path \in Paths |-> Unknown]
    /\ f_started = 0

\* create_file, up to the first .await: the request arrives and
\* fs::File::create(&args.file_path) creates the file or truncates it.
create_file(p, path, text) ==
    /\ f_pc[p] = "idle"
    /\ f_started < MaxFileRequests
    /\ f_started' = f_started + 1
    /\ f_req' = [f_req EXCEPT ![p] = [op |-> "create_file", file_path |-> path,
                                      context |-> text, n |-> f_started + 1]]
    /\ IF Creatable(path)
       THEN /\ disk' = [disk EXCEPT ![path] = File(<<>>)]
            /\ committed' = [committed EXCEPT ![path] = Unknown]
            /\ f_resp' = [f_resp EXCEPT ![p] = NoResp]
            /\ f_pc' = [f_pc EXCEPT ![p] = "f_write"]
       ELSE /\ f_resp' = [f_resp EXCEPT ![p] =
                            Err("INTERNAL_ERROR",
                                "Failed to create file in " \o path
                                    \o ", error: No such file or directory")]
            /\ UNCHANGED <<disk, committed, f_pc>>
    /\ UNCHANGED <<blocking, regVars, fmtVars>>

\* The writes tokio's File has handed to the blocking pool once write_all has
\* returned: the whole buffer, to be written from the start of the file (an
\* empty buffer is never handed over).  No flush follows in create_file.
HandedOver(n, path, bytes) ==
    IF bytes = <<>> THEN {} ELSE {[of |-> n, path |-> path, pos |-> 0, buf |-> bytes]}

\* file.write_all(args.context.as_bytes()).await.is_ok(): the buffer is handed
\* to the blocking pool, write_all reports Ok, and create_file returns success.
create_file_write_all(p) ==
    /\ f_pc[p] = "f_write"
    /\ blocking' = blocking \cup HandedOver(f_req[p].n, f_req[p].file_path,
                                            as_bytes(f_req[p].context))
    /\ f_resp' = [f_resp EXCEPT ![p] = Ok(<<>>)]
    /\ committed' = [committed EXCEPT ![f_req[p].file_path] = Known(f_req[p].context)]
    /\ f_pc' = [f_pc EXCEPT ![p] = "idle"]
    /\ UNCHANGED <<disk, f_req, f_started, regVars, fmtVars>>

\* The bytes of a file after `chunk` is written at offset pos (a gap past the
\* end reads as zero bytes).
WriteAt(bytes, pos, chunk) ==
    LET end == pos + Len(chunk)
        len == IF end > Len(bytes) THEN end ELSE Len(bytes)
    IN  [i \in 1..len |->
            IF i > pos /\ i <= end THEN chunk[i - pos]
            ELSE IF i <= Len(bytes) THEN bytes[i]
            ELSE 0]

\* The blocking pool runs a handed-over write: std's write_all, one write(2)
\* at a time, each taking the first k bytes left.
blocking_write(w, k) ==
    /\ w \in blocking
    /\ k \in 1..Len(w.buf)
    /\ disk' = [disk EXCEPT ![w.path] =
                  File(WriteAt(@.bytes, w.pos, SubSeq(w.buf, 1, k)))]
    /\ blocking' = (blocking \ {w}) \cup
                     IF k = Len(w.buf) THEN {}
                     ELSE {[w EXCEPT !.pos = @ + k,
                                     !.buf = SubSeq(w.buf, k + 1, Len(w.buf))]}
    /\ UNCHANGED <<f_pc, f_req, f_resp, committed, f_started, regVars, fmtVars>>

\* The Result of read_file on the file system as it stands.
ReadResult(path) ==
    IF ~disk[path].exists
    THEN Err("RESOURCE_NOT_FOUND",
             "file " \o path \o " is not found, ask for the right file path, error:"
                 \o "No such file or directory")
    ELSE IF ~from_utf8(disk[path].bytes).ok
    THEN Err("INTERNAL_ERROR",
             "failed to parse the text which contains invalid character")
    ELSE Ok(<<from_utf8(disk[path].bytes).text>>)

\* read_file: fs::read(&args.file_path).await, String::from_utf8, the return.
read_file(p, path) ==
    /\ f_pc[p] = "idle"
    /\ f_started < MaxFileRequests
    /\ f_started' = f_started + 1
    /\ f_req' = [f_req EXCEPT ![p] = [op |-> "read_file", file_path |-> path,
                                      n |-> f_started + 1]]
    /\ f_resp' = [f_resp EXCEPT ![p] = ReadResult(path)]
    /\ UNCHANGED <<disk, blocking, f_pc, committed, regVars, fmtVars>>

----------------------------------------------------------------------------
(* The specifications.                                                     *)

Init == InitReg /\ InitFmt /\ InitFile

Next ==
    \/ \E p \in Tasks, label \in Labels : create_instant(p, label)
    \/ \E p \in Tasks : create_write_lock(p)
    \/ \E p \in Tasks : create_insert(p)
    \/ \E p \in Tasks, id \in InstanceIds : elapsed_since(p, id)
    \/ \E p \in Tasks : elapsed_read_lock(p)
    \/ \E p \in Tasks : elapsed_get(p)
    \/ \E d \in TickSteps : Tick(d)

Spec == Init /\ [][Next]_vars

InitFmtSpec == InitReg /\ InitFile /\ fmt_in \in Durations /\ fmt_out = ""
NextFmt == \E d \in Durations : format_duration(d)
SpecFmt == InitFmtSpec /\ [][NextFmt]_vars

NextFile ==
    \/ \E p \in FileTasks, path \in Paths, text \in Texts : create_file(p, path, text)
    \/ \E p \in FileTasks : create_file_write_all(p)
    \/ \E w \in blocking, k \in 1..MaxBytes : blocking_write(w, k)
    \/ \E p \in FileTasks, path \in Paths : read_file(p, path)

SpecFile == Init /\ [][NextFile]_vars

\* The steps of task p once its request has started: the runtime keeps running
\* a handler that can run (no .await lies between the lock and the return).
Step(p) ==
    \/ create_write_lock(p)
    \/ create_insert(p)
    \/ elapsed_read_lock(p)
    \/ elapsed_get(p)

FairSpec == Spec /\ \A p \in Tasks : WF_vars(Step(p))

----------------------------------------------------------------------------
(* The claims about the registry.                                          *)

\* C1: when create_instant(L) has returned identifier I and elapsed_since(I)
\* looks I up with the clock still at the instant the create recorded, it
\* succeeds and reports label L and the duration 00:00.
C1_CreateThenElapsedZero ==
    [][\A p \in Tasks, c \in issued :
          (/\ elapsed_get(p)
           /\ req[p].instance_id = c.id
           /\ now = c.at)
          => resp'[p] = Ok(<<"instance label :" \o c.label,
                            "time has elpased  00:00">>)]_vars

\* C1 witness: an elapsed_since on the identifier of a create with the empty
\* label has returned 00:00, the clock not having moved since the create.
C1_Witness ==
    \E p \in Tasks, c \in issued :
        /\ pc[p] = "idle"
        /\ req[p].op = "elapsed_since"
        /\ req[p].instance_id = c.id
        /\ c.label = ""
        /\ now = c.at
        /\ resp[p] = Ok(<<"instance label :", "time has elpased  00:00">>)

\* C2 (as claimed): an elapsed_since on an identifier that is no key of the
\* registry returns an error of the Not Found kind (ErrorCode::RESOURCE_NOT_FOUND,
\* the code read_file uses for a missing file) whose message contains the
\* identifier, and leaves the registry unchanged.
C2_UnknownIdIsNotFound ==
    [][\A p \in Tasks :
          (elapsed_get(p) /\ req[p].instance_id \notin DOMAIN instant_map)
          => /\ resp'[p].tag = "Err"
             /\ resp'[p].code = "RESOURCE_NOT_FOUND"
             /\ Contains(resp'[p].message, req[p].instance_id)
             /\ instant_map' = instant_map]_vars

\* What the code does for C2's case: the same, under ErrorCode::INVALID_PARAMS.
UnknownIdIsInvalidParams ==
    [][\A p \in Tasks :
          (elapsed_get(p) /\ req[p].instance_id \notin DOMAIN instant_map)
          => /\ resp'[p].tag = "Err"
             /\ resp'[p].code = "INVALID_PARAMS"
             /\ Contains(resp'[p].message, req[p].instance_id)
             /\ instant_map' = instant_map]_vars

\* A create_instant of task p has returned Ok.
Created(p) == pc[p] = "idle" /\ req[p].op = "create_instant" /\ resp[p].tag = "Ok"

NoCreateInFlight == \A p \in Tasks : pc[p] \notin {"c_lock", "c_insert"}

\* C4: however create_instant calls interleave with each other and with
\* elapsed_since calls, each returns Ok, the identifiers returned are pairwise
\* distinct, every returned identifier resolves to the label of its own call,
\* and once all calls have returned the registry holds one entry per call.
C4_ConcurrentCreates ==
    /\ \A p \in Tasks :
          (pc[p] = "idle" /\ req[p].op = "create_instant") => resp[p].tag = "Ok"
    /\ Cardinality({c.id : c \in issued}) = n_issued
    /\ \A c \in issued :
          /\ c.id \in DOMAIN instant_map
          /\ GetResult(instant_map, c.id).tag = "Ok"
          /\ GetResult(instant_map, c.id).content[1] = "instance label :" \o c.label
    /\ NoCreateInFlight =>
          /\ n_issued = n_called
          /\ Cardinality(DOMAIN instant_map) = n_called

\* C4 witness: two create_instant calls with different labels overlapped (one
\* returned while the other was in flight), both have returned, and the
\* registry holds both entries.
C4_Witness ==
    /\ NoCreateInFlight
    /\ n_issued = 2
    /\ \E c, d \in issued : c.overlap /\ c.label # d.label
    /\ Cardinality(DOMAIN instant_map) = 2

\* C5: no step of elapsed_since changes the registry, and after a successful
\* lookup the same identifier still resolves to the same label.
C5_ElapsedReadOnly ==
    [][\A p \in Tasks :
          /\ ((\E id \in InstanceIds : elapsed_since(p, id))
                \/ elapsed_read_lock(p) \/ elapsed_get(p))
             => instant_map' = instant_map
          /\ (elapsed_get(p) /\ resp'[p].tag = "Ok")
             => /\ GetResult(instant_map', req[p].instance_id).tag = "Ok"
                /\ GetResult(instant_map', req[p].instance_id).content[1]
                      = resp'[p].content[1]]_vars

\* C5 witness: two elapsed_since calls on the same identifier have both
\* returned Ok with the same label.
C5_Witness ==
    \E p, q \in Tasks :
        /\ p # q
        /\ pc[p] = "idle" /\ pc[q] = "idle"
        /\ req[p].op = "elapsed_since" /\ req[q] = req[p]
        /\ resp[p].tag = "Ok" /\ resp[q].tag = "Ok"
        /\ resp[p].content[1] = resp[q].content[1]

\* C6: no step removes an entry or changes its label or start time, and the
\* insert of create_instant adds exactly one entry, under a key that was not
\* in the registry.
C6_EntriesImmutable ==
    [][/\ \A k \in DOMAIN instant_map :
             k \in DOMAIN instant_map' /\ instant_map'[k] = instant_map[k]
       /\ \A p \in Tasks :
             create_insert(p) =>
                 /\ uuid[p] \notin DOMAIN instant_map
                 /\ DOMAIN instant_map' = DOMAIN instant_map \cup {uuid[p]}
                 /\ instant_map'[uuid[p]] = [start_instance |-> now,
                                              label |-> req[p].label]]_vars

\* C6 witness: the registry holds two entries created at different times, the
\* older one as it was stored.
C6_Witness ==
    /\ n_issued = 2
    /\ \E c, d \in issued : c.at < d.at
    /\ \A c \in issued :
          /\ c.id \in DOMAIN instant_map
          /\ instant_map[c.id] = [start_instance |-> c.at, label |-> c.label]

\* C9: a write guard is never out together with another guard; create_instant
\* inserts only under a write guard and elapsed_since looks up only under a read
\* guard; and a request makes exactly one map operation per lock acquisition.
C9_ReaderWriterDiscipline ==
    /\ Cardinality(writers) <= 1
    /\ writers # {} => readers = {}
    /\ \A p \in Tasks :
          /\ pc[p] = "c_insert" => (writers = {p} /\ map_ops[p] = 0)
          /\ pc[p] = "e_get" => (p \in readers /\ writers = {} /\ map_ops[p] = 0)
          /\ Created(p) => (held[p] = "write" /\ map_ops[p] = 1)
          /\ (pc[p] = "idle" /\ req[p].op = "elapsed_since")
             => (held[p] = "read" /\ map_ops[p] = 1)

\* C9 witness: a create_instant holds the write guard while an elapsed_since
\* waits for the read lock.
C9_Witness ==
    \E p, q \in Tasks :
        /\ pc[p] = "c_insert" /\ writers = {p}
        /\ pc[q] = "e_lock"

\* C10: a task that is not inside a handler's locked section holds no guard
\* (the guard is dropped before the return, on the Ok path and on the
\* not-found path), and every started request eventually returns Ok or Err.
C10_LockReleasedAndTermination ==
    /\ [](\A p \in Tasks :
             /\ p \in writers => pc[p] = "c_insert"
             /\ p \in readers => pc[p] = "e_get"
             /\ (pc[p] = "idle" /\ req[p].op # "none") => resp[p].tag \in {"Ok", "Err"})
    /\ \A p \in Tasks : []<>(pc[p] = "idle")

\* C10 witness: a not-found elapsed_since and a create_instant have both
\* returned, and no guard is out.
C10_Witness ==
    \E p, q \in Tasks :
        /\ pc[p] = "idle" /\ req[p].op = "elapsed_since" /\ resp[p].tag = "Err"
        /\ Created(q)
        /\ writers = {} /\ readers = {}

----------------------------------------------------------------------------
(* The claims about the formatter and the file tools.                      *)

DigitValue(ch) == CHOOSE k \in 0..9 : Digit(k) = ch
IsDigits(str) == \A i \in 1..Len(str) : \E k \in 0..9 : Digit(k) = SubSeq(str, i, i)

\* The number a string of decimal digits denotes.
RECURSIVE Value(_)
Value(str) ==
    IF Len(str) = 0 THEN 0
    ELSE 10 * Value(SubSeq(str, 1, Len(str) - 1))
            + DigitValue(SubSeq(str, Len(str), Len(str)))

\* `text` reads minutes:seconds for s whole seconds: two decimal fields around
\* one colon, the seconds s mod 60 on exactly two digits, the minutes s div 60
\* on two digits or, from 100 minutes on, on as many as the number takes.
ReadsAsMinSec(text, s) ==
    \E i \in 1..Len(text) :
        LET mm == SubSeq(text, 1, i - 1)
            ss == SubSeq(text, i + 1, Len(text))
        IN  /\ SubSeq(text, i, i) = ":"
            /\ IsDigits(mm) /\ IsDigits(ss)
            /\ Len(ss) = 2 /\ Value(ss) = s % 60
            /\ Len(mm) >= 2 /\ Value(mm) = s \div 60
            /\ Len(mm) > 2 => SubSeq(mm, 1, 1) # "0"

\* C7: a duration of s whole seconds and any sub-second rest is formatted as
\* minutes:seconds, minutes = s div 60 (not capped at 59), seconds = s mod 60,
\* each zero-padded to at least two digits; 0 -> 00:00, 65 -> 01:05,
\* 3661 -> 61:01.
C7_FormatMinSec ==
    fmt_out # "" =>
        LET s == CHOOSE n \in 0..MaxSecs : n * 1000 <= fmt_in /\ fmt_in < (n + 1) * 1000
        IN  /\ ReadsAsMinSec(fmt_out, s)
            /\ s = 0 => fmt_out = "00:00"
            /\ s = 65 => fmt_out = "01:05"
            /\ s = 3661 => fmt_out = "61:01"

\* C7 witness: 3661 s and 999 ms have been formatted as 61:01.
C7_Witness == fmt_in = 3661999 /\ fmt_out = "61:01"

\* C8 (as claimed): once a create_file(P, T) has returned success, and no later
\* create_file on P has started, read_file(P) returns exactly T.
C8_WriteThenRead ==
    [][\A p \in FileTasks, path \in Paths :
          (read_file(p, path) /\ committed[path].known)
          => f_resp'[p] = Ok(<<committed[path].text>>)]_vars
====
